---- MODULE Spec2Model ----
(***************************************************************************)
(* Model of pc_report.py: the collectors (get_*_info), the section         *)
(* renderer create_table_with_data and the single-pass pipeline            *)
(* create_pdf_report.                                                      *)
(*                                                                         *)
(* Python values are records [t, text]: t is the Python type of the value  *)
(* ("str", "int", "none") and text is what str() gives for it.  A dict is  *)
(* [type |-> "dict", items |-> <<[k, v], ...>>] in insertion order, a list *)
(* is [type |-> "list", items |-> <<dict, ...>>].  A field of a host       *)
(* record that may be None is [some, n] (numbers) or [some, s] (strings).  *)
(* Byte quantities of the host are given in MiB so that the arithmetic     *)
(* stays inside TLC's 32-bit integers.                                     *)
(***************************************************************************)
EXTENDS Integers, Sequences, FiniteSets, TLC

VARIABLES
    pc,         \* position of create_pdf_report
    story,      \* the list of flowables built so far
    invoked,    \* the collectors that have been called in this run
    host,       \* what the OS / WMI queries answered, per collector called
    report,     \* what each collector returned
    buildCalls, \* number of doc.build calls
    artifacts   \* number of times pc_status_report.pdf has been written

vars == <<pc, story, invoked, host, report, buildCalls, artifacts>>

-----------------------------------------------------------------------------
(* Bounds *)

\* Most events of one run: a record enumerated (a WMI record, a partition, an
\* interface) or a WMI enumeration that raises.
MaxEvents == 2
\* Largest small capacity value drawn for the battery record (besides the samples).
MaxCap == 3

(* Program constants *)
MiBPerGiB == 1024
SecondsPerHour == 3600
MilliVoltsPerVolt == 1000

-----------------------------------------------------------------------------
(* Python values *)

PyStr(s) == [t |-> "str", text |-> s]
PyInt(n) == [t |-> "int", text |-> ToString(n)]
NA == PyStr("N/A")

SomeN(n) == [some |-> TRUE, n |-> n]
NoneN == [some |-> FALSE, n |-> 0]
SomeS(s) == [some |-> TRUE, s |-> s]
NoneS == [some |-> FALSE, s |-> ""]

\* Python truthiness of an optional number / optional string
TruthyN(x) == x.some /\ x.n # 0
TruthyS(x) == x.some /\ x.s # ""

\* `x or 'N/A'`
OrNA_S(x) == IF TruthyS(x) THEN PyStr(x.s) ELSE NA
OrNA_N(x) == IF TruthyN(x) THEN PyInt(x.n) ELSE NA

Abs(n) == IF n < 0 THEN -n ELSE n

\* round(num * 100 / den) for num >= 0, den > 0, ties to even
Hundredths(num, den) ==
    LET q == (num * 100) \div den
        r == (num * 100) % den
    IN  IF 2 * r > den THEN q + 1
        ELSE IF 2 * r = den THEN q + (q % 2)
        ELSE q

\* f"{num / den:.2f}"
Fmt2(num, den) ==
    LET h == Hundredths(Abs(num), den)
        frac == h % 100
    IN  (IF num < 0 THEN "-" ELSE "")
        \o ToString(h \div 100) \o "."
        \o (IF frac < 10 THEN "0" ELSE "") \o ToString(frac)

Item(k, v) == [k |-> k, v |-> v]
Dict(items) == [type |-> "dict", items |-> items]
List(items) == [type |-> "list", items |-> items]
EmptyDict == Dict(<<>>)

\* `key in d`
HasKey(d, key) == \E i \in 1..Len(d.items) : d.items[i].k = key
\* d[key] for a key that is present
Get(d, key) == d.items[CHOOSE i \in 1..Len(d.items) : d.items[i].k = key].v
\* d[key] = v: an existing key keeps its position
Put(d, key, v) ==
    IF HasKey(d, key)
    THEN Dict([i \in 1..Len(d.items) |->
                 IF d.items[i].k = key THEN Item(key, v) ELSE d.items[i]])
    ELSE Dict(Append(d.items, Item(key, v)))

ErrorDict(msg) == Dict(<<Item("Error", PyStr(msg))>>)

-----------------------------------------------------------------------------
(* Flowables of the story *)

Flow(f, text, rows) == [f |-> f, text |-> text, rows |-> rows]
Heading1(text) == Flow("Heading1", text, <<>>)
Heading2(text) == Flow("Heading2", text, <<>>)
Heading3(text) == Flow("Heading3", text, <<>>)
Normal(text) == Flow("Normal", text, <<>>)
Spacer == Flow("Spacer", "", <<>>)
Table(rows) == Flow("Table", "", rows)

\* the rows of a mapping: only the str values are kept
RECURSIVE table_data(_)
table_data(items) ==
    IF items = <<>> THEN <<>>
    ELSE LET it == Head(items)
         IN  (IF it.v.t = "str" THEN <<Item(it.k, it.v.text)>> ELSE <<>>)
             \o table_data(Tail(items))

\* the table of a mapping and its spacer, nothing when there is no row
TableOf(d) ==
    LET rows == table_data(d.items)
    IN  IF rows = <<>> THEN <<>> ELSE <<Table(rows), Spacer>>

\* the subheading written for every element, is_nested ignored
RECURSIVE list_flow_always_numbered(_, _, _, _)
list_flow_always_numbered(title, items, idx, is_nested) ==
    IF idx > Len(items) THEN <<>>
    ELSE LET item == items[idx]
             this ==
                 IF HasKey(item, "Error")
                 THEN <<Normal(Get(item, "Error").text), Spacer>>
                 ELSE <<Heading3(title \o " " \o ToString(idx))>> \o TableOf(item)
         IN  this \o list_flow_always_numbered(title, items, idx + 1, is_nested)

\* the flowables of the elements idx, idx+1, ... of a list
RECURSIVE list_flow(_, _, _, _)
list_flow(title, items, idx, is_nested) ==
    IF idx > Len(items) THEN <<>>
    ELSE LET item == items[idx]
             this ==
                 IF HasKey(item, "Error")
                 THEN <<Normal(Get(item, "Error").text), Spacer>>
                 ELSE (IF is_nested THEN <<>>
                       ELSE <<Heading3(title \o " " \o ToString(idx))>>)
                      \o TableOf(item)
         IN  this \o list_flow(title, items, idx + 1, is_nested)

\* what create_table_with_data appends to the story
create_table_with_data(title, data, is_nested) ==
    <<Heading2(title)>> \o
    (IF data.type = "dict"
     THEN IF HasKey(data, "Error")
          THEN <<Normal(Get(data, "Error").text), Spacer>>
          ELSE TableOf(data)
     ELSE list_flow(title, data.items, 1, is_nested))

-----------------------------------------------------------------------------
(* Collectors *)

\* str(e) of whatever a failing query raised
ErrText == "query failed"

SeqUpTo(S, n) == UNION {[1..k -> S] : k \in 0..n}

get_system_info ==
    Dict(<<Item("System", PyStr("Windows")),
           Item("Node Name", PyStr("HOST")),
           Item("Release", PyStr("10")),
           Item("Version", PyStr("10.0.19045")),
           Item("Machine", PyStr("AMD64")),
           Item("Processor", PyStr("Intel64 Family 6"))>>)

\* h.ok: w.Win32_Processor()[0], psutil.cpu_freq() and the rest all answered
get_cpu_info(h) ==
    IF h.ok
    THEN Dict(<<Item("Name", PyStr("Intel Core")),
                Item("Manufacturer", PyStr("GenuineIntel")),
                Item("Description", PyStr("Intel64 Family 6 Model 142")),
                Item("Physical Cores", PyInt(h.physical)),
                Item("Total Cores", PyInt(h.logical)),
                Item("Max Clock Speed", PyStr(ToString(h.maxClock) \o " MHz")),
                Item("Current Clock Speed", PyStr(Fmt2(h.curClock, 1) \o " MHz")),
                Item("CPU Usage", PyStr(h.usage \o "%")),
                Item("Architecture", PyInt(h.architecture)),
                Item("Family", PyInt(h.family)),
                Item("ProcessorId", PyStr("BFEBFBFF000806EA")),
                Item("Socket", PyStr("U3E1"))>>)
    ELSE ErrorDict("Could not retrieve detailed CPU information: " \o ErrText)

\* the value get_memory_info returns when psutil.virtual_memory() answers
get_memory_info(h) ==
    Dict(<<Item("Total Memory", PyStr(Fmt2(h.total, MiBPerGiB) \o " GB")),
           Item("Available Memory", PyStr(Fmt2(h.available, MiBPerGiB) \o " GB")),
           Item("Used Memory", PyStr(Fmt2(h.used, MiBPerGiB) \o " GB")),
           Item("Memory Usage", PyStr(h.percent \o "%"))>>)

PartitionEntry(p) ==
    Dict(<<Item("Mount Point", PyStr(p.mountpoint)),
           Item("File System", PyStr(p.fstype)),
           Item("Total Size", PyStr(Fmt2(p.total, MiBPerGiB) \o " GB")),
           Item("Used", PyStr(Fmt2(p.used, MiBPerGiB) \o " GB")),
           Item("Free", PyStr(Fmt2(p.free, MiBPerGiB) \o " GB")),
           Item("Usage", PyStr(p.percent \o "%"))>>)

\* a failed usage query recorded as an error entry instead of skipped
RECURSIVE disk_loop_error_entries(_, _, _)
disk_loop_error_entries(partitions, i, disk_info) ==
    IF i > Len(partitions) THEN disk_info
    ELSE LET p == partitions[i]
         IN  disk_loop_error_entries(partitions, i + 1,
                 Put(disk_info, p.device,
                     IF p.usageOk THEN PartitionEntry(p)
                     ELSE ErrorDict("Could not retrieve disk usage: " \o ErrText)))

\* the loop of get_disk_info over partitions[i..], disk_info being the dict so far
RECURSIVE disk_loop(_, _, _)
disk_loop(partitions, i, disk_info) ==
    IF i > Len(partitions) THEN disk_info
    ELSE LET p == partitions[i]
         IN  disk_loop(partitions, i + 1,
                       IF p.usageOk THEN Put(disk_info, p.device, PartitionEntry(p))
                       ELSE disk_info)

\* the value get_disk_info returns when psutil.disk_partitions() answers
get_disk_info(h) == disk_loop(h.partitions, 1, EmptyDict)

AddrEntry(a) ==
    Dict(<<Item("Family", PyStr(a.family)),
           Item("Address", PyStr(a.address)),
           Item("Netmask", OrNA_S(a.netmask)),
           Item("Broadcast", OrNA_S(a.broadcast))>>)

\* the value get_network_info returns when psutil.net_if_addrs() answers
get_network_info(h) ==
    Dict([i \in 1..Len(h.ifaces) |->
            Item(h.ifaces[i].name,
                 List([j \in 1..Len(h.ifaces[i].addrs) |->
                         AddrEntry(h.ifaces[i].addrs[j])]))])

\* an enumeration that raised appends the error element to what it had appended
WithError(elems, fails, msg) ==
    List(IF fails THEN Append(elems, ErrorDict(msg)) ELSE elems)

GpuEntry(gpu) ==
    Dict(<<Item("Name", PyStr(gpu.Name)),
           Item("Manufacturer", OrNA_S(gpu.AdapterCompatibility)),
           Item("Video Processor", OrNA_S(gpu.VideoProcessor)),
           Item("Video Memory",
                IF TruthyN(gpu.AdapterRAM)
                THEN PyStr(Fmt2(gpu.AdapterRAM.n, MiBPerGiB) \o " GB") ELSE NA),
           Item("Driver Version", OrNA_S(gpu.DriverVersion)),
           Item("Driver Date", OrNA_S(gpu.DriverDate)),
           Item("Video Memory Type", OrNA_N(gpu.VideoMemoryType)),
           Item("Current Resolution",
                IF TruthyN(gpu.CurrentHorizontalResolution)
                THEN PyStr(ToString(gpu.CurrentHorizontalResolution.n) \o "x"
                           \o (IF gpu.CurrentVerticalResolution.some
                               THEN ToString(gpu.CurrentVerticalResolution.n)
                               ELSE "None"))
                ELSE NA),
           Item("Refresh Rate",
                IF TruthyN(gpu.CurrentRefreshRate)
                THEN PyStr(ToString(gpu.CurrentRefreshRate.n) \o " Hz") ELSE NA),
           Item("DAC Type", OrNA_S(gpu.AdapterDACType)),
           Item("Bits Per Pixel", OrNA_N(gpu.CurrentBitsPerPixel))>>)

\* h.records: the controllers appended; h.fails: the enumeration then raised
get_gpu_info(h) ==
    WithError([i \in 1..Len(h.records) |-> GpuEntry(h.records[i])], h.fails,
              "Could not retrieve GPU information: " \o ErrText)

MonitorEntry(monitor) ==
    Dict(<<Item("Name", OrNA_S(monitor.Name)),
           Item("Manufacturer", OrNA_S(monitor.MonitorManufacturer)),
           Item("Model", OrNA_S(monitor.MonitorType)),
           Item("Screen Height",
                IF TruthyN(monitor.ScreenHeight)
                THEN PyStr(ToString(monitor.ScreenHeight.n) \o " pixels") ELSE NA),
           Item("Screen Width",
                IF TruthyN(monitor.ScreenWidth)
                THEN PyStr(ToString(monitor.ScreenWidth.n) \o " pixels") ELSE NA)>>)

DisplayAdapterEntry(display) ==
    Dict(<<Item("Display Adapter", OrNA_S(SomeS(display.Name))),
           Item("Current Resolution",
                IF TruthyN(display.CurrentHorizontalResolution)
                THEN PyStr(ToString(display.CurrentHorizontalResolution.n) \o "x"
                           \o (IF display.CurrentVerticalResolution.some
                               THEN ToString(display.CurrentVerticalResolution.n)
                               ELSE "None"))
                ELSE NA),
           Item("Refresh Rate",
                IF TruthyN(display.CurrentRefreshRate)
                THEN PyStr(ToString(display.CurrentRefreshRate.n) \o " Hz") ELSE NA),
           Item("Color Depth",
                IF TruthyN(display.CurrentBitsPerPixel)
                THEN PyStr(ToString(display.CurrentBitsPerPixel.n) \o " bits")
                ELSE NA)>>)

\* h.first, h.second: the records appended by the two loops before h.fails
get_display_info(h) ==
    WithError([i \in 1..Len(h.first) |-> MonitorEntry(h.first[i])]
              \o [i \in 1..Len(h.second) |-> DisplayAdapterEntry(h.second[i])],
              h.fails, "Could not retrieve display information: " \o ErrText)

InputEntry(kind, dev) ==
    Dict(<<Item("Device Type", PyStr(kind)),
           Item("Name", OrNA_S(dev.Name)),
           Item("Description", OrNA_S(dev.Description)),
           Item("PNP Device ID", OrNA_S(dev.PNPDeviceID))>>)

get_input_devices_info(h) ==
    WithError([i \in 1..Len(h.first) |-> InputEntry("Keyboard", h.first[i])]
              \o [i \in 1..Len(h.second) |-> InputEntry("Pointing Device", h.second[i])],
              h.fails, "Could not retrieve input devices information: " \o ErrText)

UsbEntry(usb) ==
    Dict(<<Item("Port Type", PyStr("USB")),
           Item("Name", OrNA_S(usb.Name)),
           Item("Description", OrNA_S(usb.Description)),
           Item("Manufacturer", OrNA_S(usb.Manufacturer))>>)

SerialEntry(serial) ==
    Dict(<<Item("Port Type", PyStr("Serial")),
           Item("Name", OrNA_S(serial.Name)),
           Item("Description", OrNA_S(serial.Description))>>)

get_io_ports_info(h) ==
    WithError([i \in 1..Len(h.first) |-> UsbEntry(h.first[i])]
              \o [i \in 1..Len(h.second) |-> SerialEntry(h.second[i])],
              h.fails, "Could not retrieve I/O ports information: " \o ErrText)

\* the ratio taken the wrong way round
HealthStatus_inverted(full, design) ==
    IF TruthyN(full) /\ TruthyN(design)
    THEN PyStr(Fmt2(design.n * 100, full.n) \o "%")
    ELSE NA

\* 'Health Status' of a battery record
HealthStatus(full, design) ==
    IF TruthyN(full) /\ TruthyN(design)
    THEN PyStr(Fmt2(full.n * 100, design.n) \o "%")
    ELSE NA

\* f"{secsleft / 3600:.2f} hours" if secsleft != -1 else "Unknown"
TimeLeft(secsleft) ==
    IF secsleft # -1 THEN Fmt2(secsleft, SecondsPerHour) \o " hours" ELSE "Unknown"

BatteryEntry(power) ==
    <<Item("Name", OrNA_S(power.Name)),
      Item("Description", OrNA_S(power.Description)),
      Item("Status", OrNA_S(power.Status)),
      Item("Battery Type", OrNA_N(power.Chemistry)),
      Item("Design Capacity", OrNA_N(power.DesignCapacity)),
      Item("Full Charge Capacity", OrNA_N(power.FullChargeCapacity)),
      Item("Health Status", HealthStatus(power.FullChargeCapacity, power.DesignCapacity)),
      Item("Voltage",
           IF TruthyN(power.DesignVoltage)
           THEN PyStr(Fmt2(power.DesignVoltage.n, MilliVoltsPerVolt) \o "V") ELSE NA),
      Item("Expected Life", OrNA_N(power.ExpectedLife)),
      Item("Smart Battery Version", OrNA_S(power.SmartBatteryVersion))>>

\* the three items power_info.update adds
SensorItems(battery) ==
    <<Item("Current Charge", PyStr(battery.percent \o "%")),
      Item("Power Plugged", PyStr(IF battery.power_plugged THEN "Yes" ELSE "No")),
      Item("Time Left", PyStr(TimeLeft(battery.secsleft)))>>

\* h.wmiRaises: wmi.WMI() or Win32_Battery() raised; h.batteries: the records;
\* h.sensorRaises: psutil.sensors_battery() raised; h.sensor.present: it is not None.
\* Every iteration assigns power_info anew, so the last record decides.
get_power_info(h) ==
    IF h.wmiRaises \/ (h.batteries # <<>> /\ h.sensorRaises)
    THEN ErrorDict("Could not retrieve power information: " \o ErrText)
    ELSE IF h.batteries = <<>> THEN EmptyDict
    ELSE Dict(BatteryEntry(h.batteries[Len(h.batteries)])
              \o (IF h.sensor.present THEN SensorItems(h.sensor) ELSE <<>>))

-----------------------------------------------------------------------------
(* What the host may answer *)

CpuAnswer(ok) ==
    [ok |-> ok, physical |-> 4, logical |-> 8, maxClock |-> 1800, curClock |-> 1792,
     usage |-> "12.5", architecture |-> 9, family |-> 198]
CpuHosts == {CpuAnswer(ok) : ok \in BOOLEAN}

MemoryHosts ==
    {[raises |-> r, total |-> 8192, available |-> 5000, used |-> 3192,
      percent |-> "39.0"] : r \in BOOLEAN}

GpuFull ==
    [Name |-> "Intel UHD", AdapterCompatibility |-> SomeS("Intel"),
     VideoProcessor |-> SomeS("UHD 620"), AdapterRAM |-> SomeN(1024),
     DriverVersion |-> SomeS("27.20"), DriverDate |-> SomeS("20200101"),
     VideoMemoryType |-> SomeN(2), CurrentHorizontalResolution |-> SomeN(1920),
     CurrentVerticalResolution |-> SomeN(1080), CurrentRefreshRate |-> SomeN(60),
     AdapterDACType |-> SomeS("Internal"), CurrentBitsPerPixel |-> SomeN(32)]
GpuSparse ==
    [Name |-> "Basic Display", AdapterCompatibility |-> NoneS,
     VideoProcessor |-> SomeS(""), AdapterRAM |-> NoneN,
     DriverVersion |-> NoneS, DriverDate |-> NoneS,
     VideoMemoryType |-> SomeN(0), CurrentHorizontalResolution |-> NoneN,
     CurrentVerticalResolution |-> NoneN, CurrentRefreshRate |-> NoneN,
     AdapterDACType |-> NoneS, CurrentBitsPerPixel |-> NoneN]
GpuRecords == {GpuFull, GpuSparse}

MonitorRecords ==
    {[Name |-> SomeS("Generic PnP Monitor"), MonitorManufacturer |-> NoneS,
      MonitorType |-> SomeS("Generic PnP Monitor"), ScreenHeight |-> SomeN(1080),
      ScreenWidth |-> NoneN]}
KeyboardRecords ==
    {[Name |-> SomeS("Enhanced (101- or 102-key)"), Description |-> SomeS("HID Keyboard"),
      PNPDeviceID |-> NoneS]}
PointingRecords ==
    {[Name |-> SomeS("HID-compliant mouse"), Description |-> NoneS,
      PNPDeviceID |-> SomeS("HID\\VID_046D")]}
UsbRecords ==
    {[Name |-> SomeS("xHCI Host Controller"), Description |-> SomeS("USB xHCI"),
      Manufacturer |-> NoneS]}
SerialRecords ==
    {[Name |-> SomeS("COM1"), Description |-> NoneS]}

Partition(dev, mnt, ok) ==
    [device |-> dev, mountpoint |-> mnt, fstype |-> "NTFS", usageOk |-> ok,
     total |-> 102400, used |-> 51200, free |-> 51200, percent |-> "50.0"]
\* a drive letter, or a folder the volume of that drive is mounted on
PartitionRecords ==
    {Partition(m[1], m[2], ok) :
        m \in {<<"C:\\", "C:\\">>, <<"C:\\", "C:\\mnt">>, <<"D:\\", "D:\\">>},
        ok \in BOOLEAN}

Addr4 == [family |-> "AF_INET", address |-> "192.168.1.2",
          netmask |-> SomeS("255.255.255.0"), broadcast |-> NoneS]
AddrLink == [family |-> "AF_LINK", address |-> "00-11-22-33-44-55",
             netmask |-> NoneS, broadcast |-> NoneS]
IfaceNames == <<"Ethernet", "Wi-Fi", "Loopback", "Bluetooth">>
AddrLists == {<<>>, <<AddrLink, Addr4>>}
\* n interfaces (the keys of a dict are distinct), each with a list of addresses
IfaceLists(n) ==
    UNION {{[i \in 1..k |-> [name |-> IfaceNames[i], addrs |-> a[i]]] :
                a \in [1..k -> AddrLists]} : k \in 0..n}

Battery(design, full, voltage) ==
    [Name |-> SomeS("Primary"), Description |-> SomeS("Internal Battery"),
     Status |-> SomeS("OK"), Chemistry |-> SomeN(6), DesignCapacity |-> design,
     FullChargeCapacity |-> full, DesignVoltage |-> voltage,
     ExpectedLife |-> NoneN, SmartBatteryVersion |-> NoneS]
Sensor(present, secsleft) ==
    [present |-> present, percent |-> "80", power_plugged |-> (secsleft < 0),
     secsleft |-> secsleft]
PowerAnswer(wmiRaises, batteries, sensorRaises, sensor) ==
    [wmiRaises |-> wmiRaises, batteries |-> batteries,
     sensorRaises |-> sensorRaises, sensor |-> sensor]

SampleBattery == Battery(SomeN(5000), SomeN(4750), SomeN(11400))
\* the answers the pipeline is run against
PowerHosts ==
    {PowerAnswer(TRUE, <<>>, FALSE, Sensor(FALSE, -1))}
    \cup {PowerAnswer(FALSE, b, FALSE, Sensor(p, 7200)) :
            b \in {<<>>, <<SampleBattery>>}, p \in BOOLEAN}
    \cup {PowerAnswer(FALSE, <<SampleBattery>>, TRUE, Sensor(FALSE, -1))}

\* the answers get_power_info alone is run against
Capacities == {NoneN} \cup {SomeN(n) : n \in 0..MaxCap} \cup {SomeN(4750), SomeN(5000)}
BatteryRecords ==
    {Battery(d, f, v) : d \in Capacities, f \in Capacities, v \in {NoneN, SomeN(11400)}}
Sensors == {Sensor(FALSE, -1)} \cup {Sensor(TRUE, s) : s \in {-1, -2, 7200}}
PowerHostsAll ==
    {PowerAnswer(TRUE, <<>>, FALSE, s) : s \in Sensors}
    \cup {PowerAnswer(FALSE, <<>>, FALSE, s) : s \in Sensors}
    \cup {PowerAnswer(FALSE, <<b>>, FALSE, s) : b \in BatteryRecords, s \in Sensors}
    \cup {PowerAnswer(FALSE, <<SampleBattery>>, TRUE, Sensor(FALSE, -1))}
    \cup {PowerAnswer(FALSE, <<SampleBattery, b>>, FALSE, Sensor(TRUE, 7200)) :
            b \in {Battery(NoneN, NoneN, NoneN)}}

-----------------------------------------------------------------------------
(* create_pdf_report *)

Timestamp == "2024-01-01 12:00:00"

\* the position after `step` when the sections are assembled in `order`
After(order, step) ==
    LET i == CHOOSE k \in 1..Len(order) : order[k] = step
    IN  IF i = Len(order) THEN "build" ELSE order[i + 1]

\* disk and network assembled before the power section
NextOf_power_after_network(step) ==
    After(<<"system", "cpu", "gpu", "memory", "display", "disk", "network",
            "power", "input", "io">>, step)

\* the order of the collector calls in create_pdf_report
NextOf(step) ==
    After(<<"system", "cpu", "gpu", "memory", "display", "power", "disk",
            "network", "input", "io">>, step)

Answered(d) == d \in DOMAIN host
Cost(fails) == IF fails THEN 1 ELSE 0
Count(d) ==
    IF ~Answered(d) THEN 0
    ELSE CASE d = "gpu" -> Len(host[d].records) + Cost(host[d].fails)
           [] d \in {"display", "input", "io"} ->
                Len(host[d].first) + Len(host[d].second) + Cost(host[d].fails)
           [] d = "disk" -> Len(host[d].partitions)
           [] d = "network" -> Len(host[d].ifaces)
           [] OTHER -> 0
\* the events so far in this run, and how many more the bound allows
Used == Count("gpu") + Count("display") + Count("disk") + Count("network")
        + Count("input") + Count("io")
Free == MaxEvents - Used

ListAnswers(S) ==
    UNION {{[records |-> r, fails |-> f] : r \in SeqUpTo(S, Free - Cost(f))} :
            f \in {b \in BOOLEAN : Cost(b) <= Free}}
TwoListAnswers(S1, S2) ==
    UNION {UNION {{[first |-> a, second |-> b, fails |-> f] :
                      b \in SeqUpTo(S2, Free - Cost(f) - Len(a))} :
                  a \in SeqUpTo(S1, Free - Cost(f))} :
            f \in {b \in BOOLEAN : Cost(b) <= Free}}

\* one create_table_with_data call per entry of a dict of sections
RECURSIVE sections_of(_, _, _)
sections_of(prefix, items, is_nested) ==
    IF items = <<>> THEN <<>>
    ELSE create_table_with_data(prefix \o Head(items).k, Head(items).v, is_nested)
         \o sections_of(prefix, Tail(items), is_nested)

\* a collector was called with answer h and returned data; its section is appended
Collect(d, h, data, flow, next) ==
    /\ invoked' = Append(invoked, d)
    /\ host' = (d :> h) @@ host
    /\ report' = (d :> data) @@ report
    /\ story' = story \o flow
    /\ pc' = next
    /\ UNCHANGED <<buildCalls, artifacts>>

\* a collector was called with answer h and let the exception out
Crash(d, h) ==
    /\ invoked' = Append(invoked, d)
    /\ host' = (d :> h) @@ host
    /\ pc' = "crashed"
    /\ UNCHANGED <<story, report, buildCalls, artifacts>>

Init ==
    /\ pc = "start"
    /\ story = <<>>
    /\ invoked = <<>>
    /\ host = <<>>
    /\ report = <<>>
    /\ buildCalls = 0
    /\ artifacts = 0

\* the output file created as soon as the document object is
Begin_creates_file ==
    /\ pc = "start"
    /\ story' = <<Heading1("PC Status Report"),
                  Normal("Generated on: " \o Timestamp), Spacer>>
    /\ pc' = "system"
    /\ artifacts' = artifacts + 1
    /\ UNCHANGED <<invoked, host, report, buildCalls>>

Begin ==
    /\ pc = "start"
    /\ story' = <<Heading1("PC Status Report"),
                  Normal("Generated on: " \o Timestamp), Spacer>>
    /\ pc' = "system"
    /\ UNCHANGED <<invoked, host, report, buildCalls, artifacts>>

SystemStep ==
    /\ pc = "system"
    /\ Collect("system", <<>>, get_system_info,
               create_table_with_data("System Information", get_system_info, FALSE),
               NextOf("system"))

CpuStep ==
    /\ pc = "cpu"
    /\ \E h \in CpuHosts :
         Collect("cpu", h, get_cpu_info(h),
                 create_table_with_data("CPU Information", get_cpu_info(h), FALSE),
                 NextOf("cpu"))

GpuStep ==
    /\ pc = "gpu"
    /\ \E h \in ListAnswers(GpuRecords) :
         Collect("gpu", h, get_gpu_info(h),
                 create_table_with_data("GPU Information", get_gpu_info(h), FALSE),
                 NextOf("gpu"))

MemoryStep ==
    /\ pc = "memory"
    /\ \E h \in MemoryHosts :
         IF h.raises THEN Crash("memory", h)
         ELSE Collect("memory", h, get_memory_info(h),
                      create_table_with_data("Memory Information",
                                             get_memory_info(h), FALSE),
                      NextOf("memory"))

DisplayStep ==
    /\ pc = "display"
    /\ \E h \in TwoListAnswers(MonitorRecords, {GpuFull}) :
         Collect("display", h, get_display_info(h),
                 create_table_with_data("Display Information",
                                        get_display_info(h), FALSE),
                 NextOf("display"))

PowerStep ==
    /\ pc = "power"
    /\ \E h \in PowerHosts :
         Collect("power", h, get_power_info(h),
                 create_table_with_data("Power and Battery Information",
                                        get_power_info(h), FALSE),
                 NextOf("power"))

DiskStep ==
    /\ pc = "disk"
    /\ \E r \in BOOLEAN, ps \in SeqUpTo(PartitionRecords, Free) :
         LET h == [raises |-> r, partitions |-> IF r THEN <<>> ELSE ps]
         IN  IF h.raises THEN Crash("disk", h)
             ELSE Collect("disk", h, get_disk_info(h),
                          sections_of("Disk: ", get_disk_info(h).items, FALSE),
                          NextOf("disk"))

NetworkStep ==
    /\ pc = "network"
    /\ \E r \in BOOLEAN, is \in IfaceLists(Free) :
         LET h == [raises |-> r, ifaces |-> IF r THEN <<>> ELSE is]
         IN  IF h.raises THEN Crash("network", h)
             ELSE Collect("network", h, get_network_info(h),
                          sections_of("Network Interface: ",
                                      get_network_info(h).items, TRUE),
                          NextOf("network"))

InputStep ==
    /\ pc = "input"
    /\ \E h \in TwoListAnswers(KeyboardRecords, PointingRecords) :
         Collect("input", h, get_input_devices_info(h),
                 create_table_with_data("Input Devices",
                                        get_input_devices_info(h), FALSE),
                 NextOf("input"))

IoStep ==
    /\ pc = "io"
    /\ \E h \in TwoListAnswers(UsbRecords, SerialRecords) :
         Collect("io", h, get_io_ports_info(h),
                 create_table_with_data("I/O Ports", get_io_ports_info(h), FALSE),
                 NextOf("io"))

\* doc.build(story): the one place the file is written.  Whether a build that
\* raises has already created the file is up to the library: both may happen.
Build ==
    /\ pc = "build"
    /\ buildCalls' = buildCalls + 1
    /\ \E ok \in BOOLEAN, w \in 0..1 :
         /\ ok => w = 1
         /\ artifacts' = artifacts + w
         /\ pc' = IF ok THEN "done" ELSE "crashed"
    /\ UNCHANGED <<story, invoked, host, report>>

Next ==
    \/ Begin
    \/ SystemStep
    \/ CpuStep
    \/ GpuStep
    \/ MemoryStep
    \/ DisplayStep
    \/ PowerStep
    \/ DiskStep
    \/ NetworkStep
    \/ InputStep
    \/ IoStep
    \/ Build

Spec == Init /\ [][Next]_vars

-----------------------------------------------------------------------------
(* get_power_info and its section alone, against every battery answer *)

InitPower ==
    /\ pc = "power"
    /\ story = <<>>
    /\ invoked = <<>>
    /\ host \in {("power" :> h) : h \in PowerHostsAll}
    /\ report = <<>>
    /\ buildCalls = 0
    /\ artifacts = 0

PowerCall ==
    /\ pc = "power"
    /\ invoked = <<>>
    /\ Collect("power", host["power"], get_power_info(host["power"]),
               create_table_with_data("Power and Battery Information",
                                      get_power_info(host["power"]), FALSE),
               "returned")

NextPower == PowerCall

SpecPower == InitPower /\ [][NextPower]_vars

-----------------------------------------------------------------------------
(* Reading the story and the reports *)

Domains == {"system", "cpu", "gpu", "memory", "display", "power", "disk",
            "network", "input", "io"}
SequenceDomains == {"gpu", "display", "input", "io"}

Called(d) == \E i \in 1..Len(invoked) : invoked[i] = d
Returned(d) == d \in DOMAIN report

Title(d) ==
    CASE d = "system" -> "System Information"
      [] d = "cpu" -> "CPU Information"
      [] d = "gpu" -> "GPU Information"
      [] d = "memory" -> "Memory Information"
      [] d = "display" -> "Display Information"
      [] d = "power" -> "Power and Battery Information"
      [] d = "input" -> "Input Devices"
      [] d = "io" -> "I/O Ports"

HasSection(title) == \E i \in 1..Len(story) : story[i] = Heading2(title)
SectionStart(title) == CHOOSE i \in 1..Len(story) : story[i] = Heading2(title)
\* the flowables from the heading `title` up to the next section heading
Section(title) ==
    LET i == SectionStart(title)
        later == {j \in (i + 1)..Len(story) : story[j].f = "Heading2"}
        end == IF later = {} THEN Len(story) + 1
               ELSE CHOOSE j \in later : \A k \in later : j <= k
    IN  SubSeq(story, i, end - 1)

\* the underlying query of domain d raised in this run
Raised(d) ==
    /\ Called(d)
    /\ CASE d = "cpu" -> ~host[d].ok
         [] d \in SequenceDomains -> host[d].fails
         [] d \in {"memory", "disk", "network"} -> host[d].raises
         [] d = "power" -> host[d].wmiRaises
                           \/ (host[d].batteries # <<>> /\ host[d].sensorRaises)
         [] OTHER -> FALSE

\* a mapping whose only key is 'Error'
IsErrorIndicator(data) ==
    /\ data.type = "dict"
    /\ Len(data.items) = 1
    /\ data.items[1].k = "Error"

\* a sequence of exactly one element, the error indicator
IsErrorSequence(data) ==
    /\ data.type = "list"
    /\ Len(data.items) = 1
    /\ IsErrorIndicator(data.items[1])

\* heading, one line of text, the spacer after it, and nothing else
IsErrorSection(sec) ==
    /\ Len(sec) = 3
    /\ sec[1].f = "Heading2" /\ sec[2].f = "Normal" /\ sec[3].f = "Spacer"

-----------------------------------------------------------------------------
(* Claims *)

\* C1: a failure while collecting one domain never prevents the others from
\* being collected: no run ends before every collector has been called, every
\* section has been added and the build has been reached.
C1_FailureIsolation ==
    pc = "crashed" =>
        /\ \A d \in Domains : Called(d)
        /\ \A d \in Domains \ {"disk", "network"} : HasSection(Title(d))
        /\ buildCalls = 1

\* C2: for every domain except disk, a query that raised makes the collector
\* return the error indicator (for a sequence domain: the one-element sequence
\* holding it), and the section is the heading, one line of text and no table.
C2_ErrorIndicator ==
    \A d \in Domains \ {"disk"} :
        Raised(d) =>
            /\ Returned(d)
            /\ IsErrorIndicator(report[d]) \/ IsErrorSequence(report[d])
            /\ HasSection(Title(d))
            /\ IsErrorSection(Section(Title(d)))

\* C5: the artifact is written at most once, by the single build call made
\* after the sections of all domains were assembled; a run that failed before
\* the build call has written nothing; a completed run has written exactly once.
C5_AllOrNothing ==
    /\ buildCalls <= 1
    /\ artifacts <= buildCalls
    /\ buildCalls = 1 => \A d \in Domains : Returned(d)
    /\ (pc = "crashed" /\ buildCalls = 0) => artifacts = 0
    /\ pc = "done" => artifacts = 1

\* a completed run, the artifact written
C5_Witness == pc = "done" /\ artifacts = 1 /\ buildCalls = 1

\* a run that ended with an uncaught failure before the build
C5_WitnessCrash == pc = "crashed" /\ buildCalls = 0 /\ Len(story) > 3

\* C7: every field value of every mapping a collector returned is a str, so
\* that every field is a row of its table.
AllStr(d) == \A i \in 1..Len(d.items) : d.items[i].v.t = "str"
C7_AllValuesDisplayReady ==
    \A d \in {"system", "cpu", "memory", "power"} \cap DOMAIN report :
        /\ AllStr(report[d])
        /\ (~HasKey(report[d], "Error") /\ report[d].items # <<>>) =>
              \E i \in 1..Len(story) :
                  /\ story[i].f = "Table"
                  /\ story[i].rows = [j \in 1..Len(report[d].items) |->
                        Item(report[d].items[j].k, report[d].items[j].v.text)]

\* C9: for the sequence domains, an enumeration that raised - also after
\* records were appended - returns a sequence of exactly one element, the
\* error indicator.
C9_EnumerationFailureCollapses ==
    \A d \in SequenceDomains :
        (Returned(d) /\ Raised(d)) => IsErrorSequence(report[d])

\* the section headings of the story, in order
RECURSIVE headings(_)
headings(flow) ==
    IF flow = <<>> THEN <<>>
    ELSE (IF Head(flow).f = "Heading2" THEN <<Head(flow).text>> ELSE <<>>)
         \o headings(Tail(flow))

DiskTitles == {"Disk: " \o p.device : p \in PartitionRecords}
DiskSections ==
    LET hs == headings(story) IN {i \in 1..Len(hs) : hs[i] \in DiskTitles}
Position(title) ==
    LET hs == headings(story) IN CHOOSE i \in 1..Len(hs) : hs[i] = title

OkPartitions ==
    {i \in 1..Len(host["disk"].partitions) : host["disk"].partitions[i].usageOk}
FailedPartitions == (1..Len(host["disk"].partitions)) \ OkPartitions
OkDevices == {host["disk"].partitions[i].device : i \in OkPartitions}
DiskKeys == {report["disk"].items[i].k : i \in 1..Len(report["disk"].items)}

\* C3 as claimed: a partition whose usage query failed is absent from the
\* result, and there are as many 'Disk: <device>' sections as partitions whose
\* usage query succeeded.
C3_Original ==
    Returned("disk") =>
        /\ \A i \in FailedPartitions : host["disk"].partitions[i].device \notin DiskKeys
        /\ Cardinality(DiskSections) = Cardinality(OkPartitions)

\* C3 amended: the result holds one entry per device that has a partition whose
\* usage query succeeded (the entry of the last such partition), a device with
\* none is absent, no entry is an error entry, and there are as many
\* 'Disk: <device>' sections as such devices, each a heading and a table.
C3_DiskPolicy ==
    Returned("disk") =>
        /\ DiskKeys = OkDevices
        /\ Len(report["disk"].items) = Cardinality(OkDevices)
        /\ \A i \in 1..Len(report["disk"].items) :
              LET e == report["disk"].items[i]
                  last == CHOOSE j \in OkPartitions :
                             /\ host["disk"].partitions[j].device = e.k
                             /\ \A k \in OkPartitions :
                                   host["disk"].partitions[k].device = e.k => k <= j
                  sec == Section("Disk: " \o e.k)
              IN  /\ ~HasKey(e.v, "Error")
                  /\ Get(e.v, "Mount Point").text
                        = host["disk"].partitions[last].mountpoint
                  /\ HasSection("Disk: " \o e.k)
                  /\ Len(sec) = 3
                  /\ sec[2].f = "Table"
        /\ Cardinality(DiskSections) = Cardinality(OkDevices)

\* two partitions answered, one usage query failed and one succeeded
C3_Witness ==
    /\ Returned("disk")
    /\ FailedPartitions # {}
    /\ OkPartitions # {}

HasBattery == Returned("power") /\ host["power"].batteries # <<>>
EndToEndHost ==
    /\ pc = "done"
    /\ DiskSections # {}
    /\ host["network"].ifaces # <<>>
    /\ HasBattery

\* C4 as claimed: System, CPU, Memory, then a Disk section, then the power section.
C4_Original ==
    EndToEndHost =>
        /\ Position(Title("system")) < Position(Title("cpu"))
        /\ Position(Title("cpu")) < Position(Title("memory"))
        /\ \E i \in DiskSections :
              /\ Position(Title("memory")) < i
              /\ i < Position(Title("power"))

\* C4 amended: System, CPU, Memory, then the power section, then every Disk section.
C4_SectionOrder ==
    EndToEndHost =>
        /\ \A d \in {"system", "cpu", "memory", "power"} : HasSection(Title(d))
        /\ Position(Title("system")) < Position(Title("cpu"))
        /\ Position(Title("cpu")) < Position(Title("memory"))
        /\ Position(Title("memory")) < Position(Title("power"))
        /\ \A i \in DiskSections : Position(Title("power")) < i

\* a completed run on a host with a disk, an interface and a battery
C4_Witness == EndToEndHost /\ ~Raised("power")

\* the subheadings of a section, in order
RECURSIVE subheadings(_)
subheadings(flow) ==
    IF flow = <<>> THEN <<>>
    ELSE (IF Head(flow).f = "Heading3" THEN <<Head(flow).text>> ELSE <<>>)
         \o subheadings(Tail(flow))

RECURSIVE tables(_)
tables(flow) ==
    IF flow = <<>> THEN <<>>
    ELSE (IF Head(flow).f = "Table" THEN <<Head(flow).rows>> ELSE <<>>)
         \o tables(Tail(flow))

\* the elements of a list that are not the error element
Records(data) == SelectSeq(data.items, LAMBDA e : ~HasKey(e, "Error"))

\* one table per record, each under its '<title> <index>' subheading
NumberedSection(d) ==
    LET sec == Section(Title(d))
        n == Len(Records(report[d]))
    IN  /\ subheadings(sec) = [i \in 1..n |-> Title(d) \o " " \o ToString(i)]
        /\ Len(tables(sec)) = n
        /\ \A i \in 1..Len(sec) :
              sec[i].f = "Heading3" => (i < Len(sec) /\ sec[i + 1].f = "Table")

\* consecutive tables, one per element, no subheading
NestedSection(title, data) ==
    LET sec == Section(title)
    IN  /\ subheadings(sec) = <<>>
        /\ Len(tables(sec)) = Len(Records(data))
        /\ Len(sec) = 1 + 2 * Len(data.items)

NetworkNested ==
    Returned("network") =>
        \A i \in 1..Len(report["network"].items) :
            LET e == report["network"].items[i]
            IN  /\ HasSection("Network Interface: " \o e.k)
                /\ NestedSection("Network Interface: " \o e.k, e.v)

\* C6 as claimed: GPU and network are rendered without subheadings, display,
\* input devices and I/O ports with one numbered subheading per element.
C6_Original ==
    /\ Returned("gpu") => NestedSection(Title("gpu"), report["gpu"])
    /\ NetworkNested
    /\ \A d \in {"display", "input", "io"} : Returned(d) => NumberedSection(d)

\* C6 amended: only network is rendered without subheadings; GPU, display,
\* input devices and I/O ports get one numbered subheading and table per record.
C6_SequenceRendering ==
    /\ NetworkNested
    /\ \A d \in SequenceDomains : Returned(d) => NumberedSection(d)

\* a GPU record and an interface with addresses have both been rendered
C6_Witness ==
    /\ Returned("network")
    /\ Len(Records(report["gpu"])) >= 1
    /\ \E i \in 1..Len(report["network"].items) :
          Len(report["network"].items[i].v.items) >= 2

\* the battery record get_power_info reported on, and the fields it returned
LastBattery == host["power"].batteries[Len(host["power"].batteries)]
PowerReported ==
    /\ Returned("power")
    /\ host["power"].batteries # <<>>
    /\ ~Raised("power")
Health == Get(report["power"], "Health Status")

\* n hundredths written with two decimals, n tenths written with one
TwoDecimals(n) ==
    ToString(n \div 100) \o "." \o ToString((n % 100) \div 10) \o ToString(n % 10)
OneDecimal(n) == ToString(n \div 10) \o "." \o ToString(n % 10)
\* n is a nearest multiple of 1/scale to 100 * full / design
Nearest(n, scale, full, design) ==
    LET d == n * design - 100 * scale * full
    IN  2 * (IF d < 0 THEN -d ELSE d) <= design
Candidates(scale, full, design) ==
    LET q == (100 * scale * full) \div design IN {q, q + 1}

C8_WitnessZero ==
    /\ PowerReported
    /\ LastBattery.DesignCapacity = SomeN(0)
    /\ LastBattery.FullChargeCapacity = SomeN(4750)
    /\ Health = NA

BatteryKeys ==
    {"Name", "Description", "Status", "Battery Type", "Design Capacity",
     "Full Charge Capacity", "Health Status", "Voltage", "Expected Life",
     "Smart Battery Version"}
SensorKeys == {"Current Charge", "Power Plugged", "Time Left"}

\* C10: when exactly one of the two sources is absent and nothing raises, the
\* domain is not the error indicator, the fields of the absent source are
\* present with the not-available value and those of the present source carry
\* their values; only a raising hardware-management query gives the error
\* indicator.
C10_SourceAbsence ==
    Returned("power") =>
        LET h == host["power"]
            r == report["power"]
            noRecord == h.batteries = <<>>
            noSensor == ~h.sensor.present
        IN  /\ (~Raised("power") /\ (noRecord # noSensor)) =>
                  /\ ~HasKey(r, "Error")
                  /\ \A k \in BatteryKeys \cup SensorKeys : HasKey(r, k)
                  /\ noRecord => \A k \in BatteryKeys : Get(r, k) = NA
                  /\ noSensor => \A k \in SensorKeys : Get(r, k) = NA
                  /\ ~noSensor =>
                        Get(r, "Current Charge") = PyStr(h.sensor.percent \o "%")
                  /\ ~noRecord => Get(r, "Name") = OrNA_S(LastBattery.Name)
            /\ HasKey(r, "Error") => h.wmiRaises

====
